---- MODULE Spec2Model ----
(***************************************************************************)
(* Model of the useDeviceOrientation hook (src/src/useDeviceOrientation.ts,*)
(* lines 1-190): the sensor handler, the permission request, the throttled *)
(* update loop with its orientation-fusion kernel, resetYaw and the cleanup *)
(* effect.                                                                  *)
(*                                                                          *)
(* Number representation.  JavaScript numbers are IEEE doubles; the model   *)
(* uses integers:                                                           *)
(*  - angles in degrees are integers counting 1/Q of a degree (Q = 2^       *)
(*    FracBits); additions on them round to MantissaBits significant bits,  *)
(*    round-half-to-even, as a binary floating-point addition does;         *)
(*  - angles in radians are integers counting 1/720 of PI (a quarter of a   *)
(*    degree), so halving a whole degree stays on the half-degree grid of   *)
(*    the sine table;                                                       *)
(*  - quaternion components and matrix entries are fixed-point numbers      *)
(*    with One = 10^8 standing for 1.0.                                     *)
(***************************************************************************)
EXTENDS Integers, Sequences, FiniteSets, TLC

VARIABLES
    yaw, pitch, roll,      \* React state, lines 51-53 (degrees, 1/Q units)
    permissionGranted,     \* React state, line 54
    yawOffsetRef,          \* line 56: <<>> is null, <<v>> holds v
    rawRef,                \* line 57: latest stored raw sample
    screenOrientRef,       \* line 58
    platformRef,           \* line 59: "ios" or "android"
    hasPermissionGate,     \* lines 79-80: DeviceOrientationEvent.requestPermission is a function
    listeners,             \* window's capture listeners for "deviceorientation"
    pending,               \* platform permission promises awaited at line 82
    mounted,               \* the component is mounted (effects not yet cleaned up)
    lastOp,                \* history: name of the last operation
    lastEvent,             \* history: the last event accepted by handleOrientation, as delivered
    batch,                 \* history: samples stored since the last update that ran:
                           \* "none", "one" or "several"
    consumed,              \* history: value of batch seen by the update that ran last,
                           \* "none" after any other step
    capture,               \* history: the raw sample and screen rotation the origin was taken from, and
                           \* whether a later update has run with that origin
    epoch,                 \* history: what left the origin unset last, "init" or "reset"
    requestsIssued,        \* history: calls of the platform's requestPermission
    pureIn, pureOut        \* argument and results when a helper is applied on its own

progVars == <<yaw, pitch, roll, permissionGranted, yawOffsetRef, rawRef,
              screenOrientRef, platformRef, hasPermissionGate, listeners,
              pending, mounted>>
histVars == <<lastOp, lastEvent, batch, consumed, capture, epoch, requestsIssued>>
pureVars == <<pureIn, pureOut>>
vars == <<progVars, histVars, pureVars>>

\* ---------------------------------------------------------------- bounds
FracBits == 2          \* fractional bits of a degree value
MantissaBits == 11     \* significant bits kept by an addition of degree values
MaxRequests == 2       \* platform permission requests issued in one run
MaxAngle == 400        \* degrees: normalize is applied on [-MaxAngle, MaxAngle]

\* ---------------------------------------------------------------- numbers
RECURSIVE Pow2(_)
Pow2(n) == IF n = 0 THEN 1 ELSE 2 * Pow2(n - 1)

Q == Pow2(FracBits)
Deg(d) == d * Q

Abs(n) == IF n < 0 THEN -n ELSE n
Sgn(n) == IF n < 0 THEN -1 ELSE 1

\* Operators take their arguments by name; where an argument is used several
\* times the operator applies a function (named ...At), which takes it by
\* value, so that the argument is computed once.

\* Magnitudes below Limit are exact.
Limit == Pow2(MantissaBits)

\* Spacing of representable values at magnitude m.
RECURSIVE Ulp(_)
Ulp(m) == IF m < Limit THEN 1 ELSE 2 * Ulp(m \div 2)

\* Round to nearest representable value, ties to even.
RoundAt[n \in Int] ==
    LET m == Abs(n)
        u == Ulp(m)
        q == m \div u
        r == m % u
        up == (2 * r > u) \/ (2 * r = u /\ q % 2 = 1)
    IN Sgn(n) * u * (IF up THEN q + 1 ELSE q)

Round(n) == RoundAt[n]

Representable(n) == Round(n) = n

FAdd(a, b) == Round(a + b)
FSub(a, b) == Round(a - b)
\* JavaScript %: the remainder takes the sign of the dividend and is exact.
FModAt[p \in Int \X Int] == IF p[1] >= 0 THEN p[1] % p[2] ELSE -((-p[1]) % p[2])
FMod(a, b) == FModAt[<<a, b>>]

\* line 40, dropping the "+ 360": a negative angle keeps its negative remainder
normalizeNoLift(angle) == FSub(FMod(FAdd(angle, Deg(180)), Deg(360)), Deg(180))

\* line 40
normalize(angle) ==
    FSub(FMod(FAdd(FMod(FAdd(angle, Deg(180)), Deg(360)), Deg(360)), Deg(360)), Deg(180))

\* ---------------------------------------------------------------- trigonometry
PI == 720                  \* Math.PI in radian units
One == 100000000           \* 1.0 in fixed point
SplitBase == 10000         \* One = SplitBase^2: factors are split so products stay in range

\* SinTable[k + 1] = One * sin(k/2 degrees), k = 0..180
SinTable == <<
    0, 872654, 1745241, 2617695, 3489950, 4361939, 5233596, 6104854,
    6975647, 7845910, 8715574, 9584575, 10452846, 11320321, 12186934, 13052619,
    13917310, 14780941, 15643447, 16504761, 17364818, 18223553, 19080900, 19936793,
    20791169, 21643961, 22495105, 23344536, 24192190, 25038000, 25881905, 26723838,
    27563736, 28401534, 29237170, 30070580, 30901699, 31730466, 32556815, 33380686,
    34202014, 35020738, 35836795, 36650123, 37460659, 38268343, 39073113, 39874907,
    40673664, 41469324, 42261826, 43051110, 43837115, 44619781, 45399050, 46174861,
    46947156, 47715876, 48480962, 49242356, 50000000, 50753836, 51503807, 52249856,
    52991926, 53729961, 54463904, 55193699, 55919290, 56640624, 57357644, 58070296,
    58778525, 59482279, 60181502, 60876143, 61566148, 62251464, 62932039, 63607822,
    64278761, 64944805, 65605903, 66262005, 66913061, 67559021, 68199836, 68835458,
    69465837, 70090926, 70710678, 71325045, 71933980, 72537437, 73135370, 73727734,
    74314483, 74895572, 75470958, 76040597, 76604444, 77162458, 77714596, 78260816,
    78801075, 79335334, 79863551, 80385686, 80901699, 81411552, 81915204, 82412619,
    82903757, 83388582, 83867057, 84339145, 84804810, 85264016, 85716730, 86162916,
    86602540, 87035570, 87461971, 87881711, 88294759, 88701083, 89100652, 89493436,
    89879405, 90258528, 90630779, 90996127, 91354546, 91706007, 92050485, 92387953,
    92718385, 93041757, 93358043, 93667219, 93969262, 94264149, 94551858, 94832366,
    95105652, 95371695, 95630476, 95881973, 96126170, 96363045, 96592583, 96814764,
    97029573, 97236992, 97437006, 97629601, 97814760, 97992470, 98162718, 98325491,
    98480775, 98628560, 98768834, 98901586, 99026807, 99144486, 99254615, 99357186,
    99452190, 99539620, 99619470, 99691733, 99756405, 99813480, 99862953, 99904822,
    99939083, 99965732, 99984770, 99996192, 100000000 >>

\* sine of k half-degrees, for any integer k
SinHalfDeg(k) ==
    LET m == k % 720
    IN IF m <= 180 THEN SinTable[m + 1]
       ELSE IF m <= 360 THEN SinTable[361 - m]
       ELSE IF m <= 540 THEN -SinTable[m - 359]
       ELSE -SinTable[721 - m]

MathSin(t) == SinHalfDeg(t \div 2)
MathCos(t) == SinHalfDeg(t \div 2 + 180)

\* line 5
deg2rad(d) == (d * PI) \div Deg(180)
\* line 6
rad2deg(r) == (r * Deg(180)) \div PI

\* product of two fixed-point numbers, rounded
mulFixAt[f \in Int \X Int] ==
    LET m == Abs(f[1])
        n == Abs(f[2])
        m1 == m \div SplitBase
        m0 == m % SplitBase
        n1 == n \div SplitBase
        n0 == n % SplitBase
        p == m1 * n1 + (m1 * n0 + m0 * n1 + (m0 * n0) \div SplitBase + SplitBase \div 2) \div SplitBase
    IN IF (f[1] < 0) = (f[2] < 0) THEN p ELSE -p

mulFix(a, b) == mulFixAt[<<a, b>>]

\* a fixed-point number reduced to SplitBase precision, truncated towards zero
Coarse(v) == Sgn(v) * (Abs(v) \div SplitBase)

\* s = <<lo, hi, v>>: the largest d in lo..hi that is lo or has One*sin(d)
\* nearer to v than One*sin(d-1)
AsinSearchAt[s \in Int \X Int \X Int] ==
    IF s[1] = s[2] THEN s[1]
    ELSE LET mid == (s[1] + s[2] + 1) \div 2
         IN IF 2 * s[3] > SinHalfDeg(2 * mid - 2) + SinHalfDeg(2 * mid)
            THEN AsinSearchAt[<<mid, s[2], s[3]>>]
            ELSE AsinSearchAt[<<s[1], mid - 1, s[3]>>]

\* Math.asin, to the nearest degree, in radian units
MathAsin(v) == AsinSearchAt[<<-90, 90, v>>] * (PI \div 180)

\* s = <<lo, hi, y, x>>: the largest d in lo..hi that is lo or lies
\* anticlockwise of the direction d - 1/2 degrees
AtanSearchAt[s \in Int \X Int \X Int \X Int] ==
    IF s[1] = s[2] THEN s[1]
    ELSE LET mid == (s[1] + s[2] + 1) \div 2
             c == Coarse(SinHalfDeg(2 * mid - 1 + 180))
             sn == Coarse(SinHalfDeg(2 * mid - 1))
         IN IF c * s[3] - sn * s[4] > 0
            THEN AtanSearchAt[<<mid, s[2], s[3], s[4]>>]
            ELSE AtanSearchAt[<<s[1], mid - 1, s[3], s[4]>>]

\* p = <<y, x>>, fixed-point
MathAtan2At[p \in Int \X Int] ==
    LET ys == Coarse(p[1])
        xs == Coarse(p[2])
    IN IF ys >= 0
       THEN AtanSearchAt[<<0, 180, ys, xs>>] * (PI \div 180)
       ELSE -AtanSearchAt[<<0, 180, -ys, xs>>] * (PI \div 180)

\* Math.atan2, to the nearest degree, in radian units
MathAtan2(y, x) == MathAtan2At[<<y, x>>]

\* lines 11-20
setFromEulerYXZ(x, y, z) ==
    LET c1 == MathCos(y \div 2)
        c2 == MathCos(x \div 2)
        c3 == MathCos(z \div 2)
        s1 == MathSin(y \div 2)
        s2 == MathSin(x \div 2)
        s3 == MathSin(z \div 2)
    IN [w |-> mulFix(mulFix(c1, c2), c3) + mulFix(mulFix(s1, s2), s3),
        x |-> mulFix(mulFix(c1, s2), c3) + mulFix(mulFix(s1, c2), s3),
        y |-> mulFix(mulFix(s1, c2), c3) - mulFix(mulFix(c1, s2), s3),
        z |-> mulFix(mulFix(c1, c2), s3) - mulFix(mulFix(s1, s2), c3)]

\* lines 8 and 23-30
Quat == [x : Int, y : Int, z : Int, w : Int]

multiplyQuatAt[p \in Quat \X Quat] ==
    LET a == p[1]
        b == p[2]
    IN [w |-> mulFix(a.w, b.w) - mulFix(a.x, b.x) - mulFix(a.y, b.y) - mulFix(a.z, b.z),
        x |-> mulFix(a.w, b.x) + mulFix(a.x, b.w) + mulFix(a.y, b.z) - mulFix(a.z, b.y),
        y |-> mulFix(a.w, b.y) - mulFix(a.x, b.z) + mulFix(a.y, b.w) + mulFix(a.z, b.x),
        z |-> mulFix(a.w, b.z) + mulFix(a.x, b.y) - mulFix(a.y, b.x) + mulFix(a.z, b.w)]

multiplyQuat(a, b) == multiplyQuatAt[<<a, b>>]

\* lines 33-37, taking sine and cosine of the whole angle
setFromAxisAngleWhole(axis, angleRad) ==
    LET s == MathSin(angleRad)
    IN [x |-> axis[1] * s, y |-> axis[2] * s, z |-> axis[3] * s, w |-> MathCos(angleRad)]

\* lines 33-37; axis is a tuple of 0 / 1 components
setFromAxisAngle(axis, angleRad) ==
    LET half == angleRad \div 2
        s == MathSin(half)
    IN [x |-> axis[1] * s, y |-> axis[2] * s, z |-> axis[3] * s, w |-> MathCos(half)]

clamp(v, a, b) == IF v < a THEN a ELSE IF v > b THEN b ELSE v

\* 0.9999999 in fixed point (line 153)
SingularThreshold == 99999990

\* lines 144-163: Euler angles pitch, yaw, roll in degrees of the quaternion
anglesAt[qFinal \in Quat] ==
    LET qx == qFinal.x
        qy == qFinal.y
        qz == qFinal.z
        qw == qFinal.w
        r00 == One - 2 * (mulFix(qy, qy) + mulFix(qz, qz))
        r02 == 2 * (mulFix(qx, qz) + mulFix(qy, qw))
        r10 == 2 * (mulFix(qx, qy) + mulFix(qz, qw))
        r11 == One - 2 * (mulFix(qx, qx) + mulFix(qz, qz))
        r12 == 2 * (mulFix(qy, qz) - mulFix(qx, qw))
        r20 == 2 * (mulFix(qx, qz) - mulFix(qy, qw))
        r22 == One - 2 * (mulFix(qx, qx) + mulFix(qy, qy))
        regular == Abs(r12) < SingularThreshold
        xRad == MathAsin(clamp(-r12, -One, One))
        yRad == IF regular THEN MathAtan2(r02, r22) ELSE MathAtan2(-r20, r00)
        zRad == IF regular THEN MathAtan2(r10, r11) ELSE 0
    IN [pitchDeg |-> rad2deg(xRad), yawDeg |-> rad2deg(yRad), rollDeg |-> rad2deg(zRad)]

\* lines 130-163: raw Euler angles pitch, yaw, roll in degrees, before the yaw origin
rawAngles(raw, screenOrient) ==
    LET qDev == setFromEulerYXZ(deg2rad(raw.beta), deg2rad(raw.alpha), -deg2rad(raw.gamma))
        q1 == setFromAxisAngle(<<1, 0, 0>>, -PI \div 2)
        qScreen == setFromAxisAngle(<<0, 0, 1>>, -deg2rad(screenOrient))
        qTmp == multiplyQuat(qDev, q1)
        qFinal == multiplyQuat(qTmp, qScreen)
    IN anglesAt[qFinal]

\* ---------------------------------------------------------------- inputs
Null == <<>>
Some(v) == <<v>>
Optional(S) == {Null} \cup {Some(v) : v \in S}

\* sensor events: two complete ones (alpha above 180, gamma beyond 90) and
\* three with a missing field
Events ==
    {[alpha |-> Some(Deg(270)), beta |-> Some(Deg(45)), gamma |-> Some(Deg(0))],
     [alpha |-> Some(Deg(90)), beta |-> Some(Deg(45)), gamma |-> Some(Deg(91))],
     [alpha |-> Some(Deg(90)), beta |-> Some(Deg(45)), gamma |-> Null],
     [alpha |-> Null, beta |-> Some(Deg(0)), gamma |-> Some(Deg(91))],
     [alpha |-> Null, beta |-> Null, gamma |-> Null]}

\* what the host reports about the screen: screen.orientation.type ("" when
\* absent), window.orientation (Null when not a number), and whether the
\* viewport is wider than tall
ScreenEnvs ==
    {[type |-> "portrait-primary", orientation |-> Null, wide |-> FALSE],
     [type |-> "landscape-primary", orientation |-> Null, wide |-> TRUE],
     [type |-> "", orientation |-> Some(90), wide |-> TRUE],
     [type |-> "", orientation |-> Null, wide |-> FALSE]}

\* hosts: the user agent, as the set of product words it contains (lower
\* case), and whether DeviceOrientationEvent.requestPermission is a function
Hosts ==
    {[ua |-> {"mozilla", "iphone", "safari"}, gate |-> TRUE],
     [ua |-> {"mozilla", "linux", "android", "chrome"}, gate |-> FALSE]}

\* milliseconds between lastTime and the frame that runs updateState
ElapsedMs == {16, 34}

\* ---------------------------------------------------------------- helpers of the hook
\* line 57: the sample rawRef holds before any event is stored
DefaultRaw == [alpha |-> 0, beta |-> 0, gamma |-> 0]

\* lines 43-47
detectPlatform(ua) == IF "android" \in ua THEN "android" ELSE "ios"

\* lines 95-106
getScreenRotation(env) ==
    IF env.type # ""
    THEN IF env.type \in {"portrait-primary", "portrait-secondary"}
         THEN (IF env.type = "portrait-primary" THEN Deg(0) ELSE Deg(180))
         ELSE (IF env.type = "landscape-primary" THEN Deg(90) ELSE Deg(-90))
    ELSE IF env.orientation # Null
         THEN LET w == env.orientation[1]
              IN IF w = 0 THEN Deg(0) ELSE IF w = 180 THEN Deg(180)
                 ELSE IF w = 90 THEN Deg(90) ELSE Deg(-90)
         ELSE IF env.wide THEN Deg(90) ELSE Deg(0)

\* line 50: the default throttle rate
ThrottleHz == 30
\* line 123
intervalMs == 1000 \div ThrottleHz

\* lines 65-74, keeping the first stored sample instead of overwriting it
storeSampleKeepFirst(cur, event) ==
    IF event.alpha = Null \/ event.beta = Null \/ event.gamma = Null THEN cur
    ELSE IF cur # DefaultRaw THEN cur
    ELSE [alpha |-> event.alpha[1], beta |-> event.beta[1], gamma |-> event.gamma[1]]

\* lines 65-74, with the null check on gamma left out: a missing gamma counts as 0
storeSampleNoGammaCheck(cur, event) ==
    IF event.alpha = Null \/ event.beta = Null THEN cur
    ELSE LET alpha == event.alpha[1]
             gamma == IF event.gamma = Null THEN 0 ELSE event.gamma[1]
             gammaDeg == IF gamma < Deg(-90) THEN FSub(Deg(-180), gamma)
                         ELSE IF gamma > Deg(90) THEN FSub(Deg(180), gamma) ELSE gamma
             alphaRaw == IF alpha <= Deg(180) THEN alpha ELSE FSub(alpha, Deg(360))
         IN [alpha |-> alphaRaw, beta |-> event.beta[1], gamma |-> gammaDeg]

\* lines 65-74, without the gamma wrap of lines 68-71
storeSampleNoUnwrap(cur, event) ==
    IF event.alpha = Null \/ event.beta = Null \/ event.gamma = Null THEN cur
    ELSE LET alpha == event.alpha[1]
             alphaRaw == IF alpha <= Deg(180) THEN alpha ELSE FSub(alpha, Deg(360))
         IN [alpha |-> alphaRaw, beta |-> event.beta[1], gamma |-> event.gamma[1]]

\* lines 65-74: the value of rawRef.current after handleOrientation(event)
storeSample(cur, event) ==
    IF event.alpha = Null \/ event.beta = Null \/ event.gamma = Null THEN cur
    ELSE LET alpha == event.alpha[1]
             gamma == event.gamma[1]
             gammaDeg == IF gamma < Deg(-90) THEN FSub(Deg(-180), gamma)
                         ELSE IF gamma > Deg(90) THEN FSub(Deg(180), gamma) ELSE gamma
             alphaRaw == IF alpha <= Deg(180) THEN alpha ELSE FSub(alpha, Deg(360))
         IN [alpha |-> alphaRaw, beta |-> event.beta[1], gamma |-> gammaDeg]

\* line 66: the event is accepted
accepted(event) == event.alpha # Null /\ event.beta # Null /\ event.gamma # Null

\* the stored samples and screen rotations the inputs above lead to
StoredSamples == {DefaultRaw} \cup {storeSample(DefaultRaw, event) : event \in Events}
ScreenRotations == {getScreenRotation(env) : env \in ScreenEnvs}

\* rawAngles tabulated on these, so that it is computed once per input
\* (@@ turns the function into an explicit table)
RawAnglesTable == [in \in StoredSamples \X ScreenRotations |-> rawAngles(in[1], in[2])] @@ <<>>

\* lines 130-163, looked up where tabulated
rawAnglesOf(raw, screenOrient) ==
    IF <<raw, screenOrient>> \in DOMAIN RawAnglesTable
    THEN RawAnglesTable[<<raw, screenOrient>>]
    ELSE rawAngles(raw, screenOrient)

\* line 165, capturing 0 instead of the computed yaw
originAfterZero(offset, yawDeg) == IF offset = Null THEN Some(0) ELSE offset

\* line 165, capturing at every update
originAfterAlways(offset, yawDeg) == Some(yawDeg)

\* line 165: yawOffsetRef.current after the update
originAfter(offset, yawDeg) == IF offset = Null THEN Some(yawDeg) ELSE offset

\* line 170
correction(platform) == IF platform = "ios" THEN Deg(180) ELSE Deg(-90)

\* lines 130-173: the origin and the published angles after an update that runs
\* what one due frame reads: the raw angles, the origin and the platform
UpdateInputs == [pitchDeg : Int, yawDeg : Int, rollDeg : Int] \X Seq(Int) \X {"ios", "android"}

updatedAt[p \in UpdateInputs] ==
    LET e == p[1]
        origin == originAfter(p[2], e.yawDeg)
        yawDeg == normalize(FSub(e.yawDeg, origin[1]))
        rollDeg == normalize(e.rollDeg)
    IN [yawOffset |-> origin,
        yaw |-> normalize(FSub(correction(p[3]), yawDeg)),
        pitch |-> e.pitchDeg,
        roll |-> -rollDeg]

\* lines 130-173, with line 171 publishing correction - yawDeg as it is
updatedNoOuterNormalize(raw, screenOrient, offset, platform) ==
    LET u == updatedAt[<<rawAnglesOf(raw, screenOrient), offset, platform>>]
        e == rawAnglesOf(raw, screenOrient)
    IN [u EXCEPT !.yaw = FSub(correction(platform),
                              normalize(FSub(e.yawDeg, u.yawOffset[1])))]

updated(raw, screenOrient, offset, platform) ==
    updatedAt[<<rawAnglesOf(raw, screenOrient), offset, platform>>]

\* ---------------------------------------------------------------- state machine
\* lines 64-75: the memoised callback (useCallback with no dependencies) is
\* the same function in every render
Handler == "handleOrientation"

\* an entry of the window's listener list for "deviceorientation": the
\* callback and the capture flag; addEventListener adds no entry twice
Listener(callback, useCapture) == [callback |-> callback, capture |-> useCapture]

\* lines 85, 89 and 186: handleOrientation, capturing
Subscription == Listener(Handler, TRUE)

\* batch after an accepted event has been handed to n listeners
delivered(b, n) ==
    IF n = 0 THEN b
    ELSE IF b = "none" /\ n = 1 THEN "one" ELSE "several"

\* the hook after its first render and effects (lines 51-59)
InitHook ==
    /\ yaw = 0 /\ pitch = 0 /\ roll = 0
    /\ permissionGranted = FALSE
    /\ yawOffsetRef = Null
    /\ rawRef = DefaultRaw
    /\ screenOrientRef \in {getScreenRotation(env) : env \in ScreenEnvs}
    /\ \E host \in Hosts : /\ platformRef = detectPlatform(host.ua)
                           /\ hasPermissionGate = host.gate
    /\ listeners = {}
    /\ pending = 0
    /\ mounted = TRUE
    /\ lastOp = "init"
    /\ lastEvent = Null
    /\ batch = "none"
    /\ consumed = "none"
    /\ capture = Null
    /\ epoch = "init"
    /\ requestsIssued = 0

Init ==
    /\ InitHook
    /\ pureIn = Null
    /\ pureOut = Null

\* line 61, also snapping the published yaw to 0
resetYawSnap ==
    /\ mounted
    /\ yawOffsetRef' = Null
    /\ yaw' = 0
    /\ capture' = Null
    /\ epoch' = "reset"
    /\ lastOp' = "resetYaw"
    /\ UNCHANGED <<pitch, roll, permissionGranted, rawRef, screenOrientRef,
                   platformRef, hasPermissionGate, listeners, pending, mounted>>
    /\ consumed' = "none"
    /\ UNCHANGED <<lastEvent, batch, requestsIssued, pureVars>>

\* line 61
resetYaw ==
    /\ mounted
    /\ yawOffsetRef' = Null
    /\ capture' = Null
    /\ epoch' = "reset"
    /\ lastOp' = "resetYaw"
    /\ UNCHANGED <<yaw, pitch, roll, permissionGranted, rawRef, screenOrientRef,
                   platformRef, hasPermissionGate, listeners, pending, mounted>>
    /\ consumed' = "none"
    /\ UNCHANGED <<lastEvent, batch, requestsIssued, pureVars>>

\* lines 64-75: the window delivers an event to every registered listener
handleOrientation(event) ==
    /\ listeners # {}
    /\ rawRef' = storeSample(rawRef, event)
    /\ lastOp' = IF accepted(event) THEN "event" ELSE "eventDropped"
    /\ lastEvent' = IF accepted(event) THEN Some(event) ELSE lastEvent
    /\ batch' = IF ~accepted(event) THEN batch
               ELSE delivered(batch, Cardinality(listeners))
    /\ UNCHANGED <<yaw, pitch, roll, permissionGranted, yawOffsetRef, screenOrientRef,
                   platformRef, hasPermissionGate, listeners, pending, mounted>>
    /\ consumed' = "none"
    /\ UNCHANGED <<capture, epoch, requestsIssued, pureVars>>

\* lines 78-92, subscribing before the platform's answer is awaited
requestPermissionEager ==
    /\ mounted
    /\ IF hasPermissionGate
       THEN /\ requestsIssued < MaxRequests
            /\ pending' = pending + 1
            /\ requestsIssued' = requestsIssued + 1
            /\ listeners' = listeners \cup {Subscription}
            /\ UNCHANGED permissionGranted
       ELSE /\ permissionGranted' = TRUE
            /\ listeners' = listeners \cup {Subscription}
            /\ UNCHANGED <<pending, requestsIssued>>
    /\ lastOp' = "requestPermission"
    /\ UNCHANGED <<yaw, pitch, roll, yawOffsetRef, rawRef, screenOrientRef,
                   platformRef, hasPermissionGate, mounted>>
    /\ consumed' = "none"
    /\ UNCHANGED <<lastEvent, batch, capture, epoch, pureVars>>

\* lines 78-92, up to the await (gate) or to the end (no gate)
requestPermission ==
    /\ mounted
    /\ IF hasPermissionGate
       THEN /\ requestsIssued < MaxRequests
            /\ pending' = pending + 1
            /\ requestsIssued' = requestsIssued + 1
            /\ UNCHANGED <<permissionGranted, listeners>>
       ELSE /\ permissionGranted' = TRUE
            /\ listeners' = listeners \cup {Subscription}
            /\ UNCHANGED <<pending, requestsIssued>>
    /\ lastOp' = "requestPermission"
    /\ UNCHANGED <<yaw, pitch, roll, yawOffsetRef, rawRef, screenOrientRef,
                   platformRef, hasPermissionGate, mounted>>
    /\ consumed' = "none"
    /\ UNCHANGED <<lastEvent, batch, capture, epoch, pureVars>>

\* lines 82-86, subscribing a fresh arrow function that calls the handler
permissionResolvedInline(resp) ==
    /\ pending > 0
    /\ pending' = pending - 1
    /\ IF resp = "granted"
       THEN /\ permissionGranted' = TRUE
            /\ listeners' = listeners \cup {Listener("arrow" \o ToString(pending), TRUE)}
       ELSE UNCHANGED <<permissionGranted, listeners>>
    /\ lastOp' = IF resp = "granted" THEN "granted" ELSE "denied"
    /\ UNCHANGED <<yaw, pitch, roll, yawOffsetRef, rawRef, screenOrientRef,
                   platformRef, hasPermissionGate, mounted>>
    /\ consumed' = "none"
    /\ UNCHANGED <<lastEvent, batch, capture, epoch, requestsIssued, pureVars>>

\* lines 82-86: the awaited promise resolves with resp
permissionResolved(resp) ==
    /\ pending > 0
    /\ pending' = pending - 1
    /\ IF resp = "granted"
       THEN /\ permissionGranted' = TRUE
            /\ listeners' = listeners \cup {Subscription}
       ELSE UNCHANGED <<permissionGranted, listeners>>
    /\ lastOp' = IF resp = "granted" THEN "granted" ELSE "denied"
    /\ UNCHANGED <<yaw, pitch, roll, yawOffsetRef, rawRef, screenOrientRef,
                   platformRef, hasPermissionGate, mounted>>
    /\ consumed' = "none"
    /\ UNCHANGED <<lastEvent, batch, capture, epoch, requestsIssued, pureVars>>

\* lines 82 and 87, asking the platform again from the catch block
permissionRejectedRetry ==
    /\ pending > 0
    /\ IF requestsIssued < MaxRequests
       THEN /\ requestsIssued' = requestsIssued + 1
            /\ UNCHANGED pending
       ELSE /\ pending' = pending - 1
            /\ UNCHANGED requestsIssued
    /\ lastOp' = "rejected"
    /\ UNCHANGED <<yaw, pitch, roll, permissionGranted, yawOffsetRef, rawRef, screenOrientRef,
                   platformRef, hasPermissionGate, listeners, mounted>>
    /\ consumed' = "none"
    /\ UNCHANGED <<lastEvent, batch, capture, epoch, pureVars>>

\* lines 82 and 87: the awaited promise rejects, or the request throws
permissionRejected ==
    /\ pending > 0
    /\ pending' = pending - 1
    /\ lastOp' = "rejected"
    /\ UNCHANGED <<yaw, pitch, roll, permissionGranted, yawOffsetRef, rawRef, screenOrientRef,
                   platformRef, hasPermissionGate, listeners, mounted>>
    /\ consumed' = "none"
    /\ UNCHANGED <<lastEvent, batch, capture, epoch, requestsIssued, pureVars>>

\* lines 110-114: orientationchange or resize
updateScreenRotation(env) ==
    /\ mounted
    /\ screenOrientRef' = getScreenRotation(env)
    /\ lastOp' = "updateScreenRotation"
    /\ UNCHANGED <<yaw, pitch, roll, permissionGranted, yawOffsetRef, rawRef,
                   platformRef, hasPermissionGate, listeners, pending, mounted>>
    /\ consumed' = "none"
    /\ UNCHANGED <<lastEvent, batch, capture, epoch, requestsIssued, pureVars>>

\* lines 127-178: one animation frame, elapsed = now - lastTime
updateState(elapsed) ==
    /\ mounted
    /\ IF elapsed >= intervalMs
       THEN \E u \in {updated(rawRef, screenOrientRef, yawOffsetRef, platformRef)} :
               /\ yawOffsetRef' = u.yawOffset
               /\ yaw' = u.yaw
               /\ pitch' = u.pitch
               /\ roll' = u.roll
               /\ capture' = IF yawOffsetRef = Null
                             THEN Some([raw |-> rawRef, screen |-> screenOrientRef, again |-> FALSE])
                             ELSE Some([capture[1] EXCEPT !.again = TRUE])
               /\ consumed' = batch
               /\ batch' = "none"
               /\ lastOp' = "update"
       ELSE UNCHANGED <<yaw, pitch, roll, yawOffsetRef, capture, consumed, batch, lastOp>>
    /\ UNCHANGED <<permissionGranted, rawRef, screenOrientRef, platformRef,
                   hasPermissionGate, listeners, pending, mounted>>
    /\ UNCHANGED <<lastEvent, epoch, requestsIssued, pureVars>>

\* lines 115-118, 181, 185-187: the effects' cleanups at unmount
cleanup ==
    /\ mounted
    /\ mounted' = FALSE
    /\ listeners' = listeners \ {Subscription}
    /\ lastOp' = "cleanup"
    /\ UNCHANGED <<yaw, pitch, roll, permissionGranted, yawOffsetRef, rawRef, screenOrientRef,
                   platformRef, hasPermissionGate, pending>>
    /\ consumed' = "none"
    /\ UNCHANGED <<lastEvent, batch, capture, epoch, requestsIssued, pureVars>>

Responses == {"granted", "denied"}

Next ==
    \/ resetYaw
    \/ \E event \in Events : handleOrientation(event)
    \/ requestPermission
    \/ \E resp \in Responses : permissionResolved(resp)
    \/ permissionRejected
    \/ \E env \in ScreenEnvs : updateScreenRotation(env)
    \/ \E elapsed \in ElapsedMs : updateState(elapsed)
    \/ cleanup

Spec == Init /\ [][Next]_vars

\* ---------------------------------------------------------------- normalize on its own
\* every representable angle between -MaxAngle and MaxAngle degrees
NormalizeInputs == {a \in Deg(-MaxAngle)..Deg(MaxAngle) : Representable(a)}

InitNormalize ==
    /\ InitHook
    /\ pureIn \in {Some(a) : a \in NormalizeInputs}
    /\ pureOut = Null

applyNormalize ==
    /\ pureIn # Null
    /\ pureOut = Null
    /\ pureOut' = Some([once |-> normalize(pureIn[1]),
                        twice |-> normalize(normalize(pureIn[1]))])
    /\ UNCHANGED <<progVars, histVars, pureIn>>

NextNormalize == applyNormalize

SpecNormalize == InitNormalize /\ [][NextNormalize]_vars

WholeDegrees(a) == a % Q = 0

InRange(r) == Deg(-180) <= r /\ r < Deg(180)

\* C10 as stated: for every angle a, normalize(a) lies in [-180, 180), 180
\* maps to -180, and normalize(normalize(a)) = normalize(a).
C10_RangeAndIdempotent ==
    pureOut # Null =>
        /\ InRange(pureOut[1].once)
        /\ (pureIn[1] = Deg(180) => pureOut[1].once = Deg(-180))
        /\ pureOut[1].twice = pureOut[1].once

\* C10 amended: for every angle a, normalize(a) lies in [-180, 180) and 180
\* maps to -180; normalize(normalize(a)) = normalize(a) for every a that is a
\* whole number of degrees, and for any other a the two agree up to one unit
\* of the rounding of an addition near 720, taken modulo 360.
C10_RangeAndIdempotentOnWholeDegrees ==
    pureOut # Null =>
        /\ InRange(pureOut[1].once)
        /\ (pureIn[1] = Deg(180) => pureOut[1].once = Deg(-180))
        /\ (WholeDegrees(pureIn[1]) => pureOut[1].twice = pureOut[1].once)
        /\ LET d == Abs(pureOut[1].twice - pureOut[1].once)
           IN d <= Ulp(Deg(720)) \/ d >= Deg(360) - Ulp(Deg(720))

\* normalize has been applied to a negative whole angle outside the range
C10_Witness ==
    /\ pureOut # Null
    /\ pureIn[1] = Deg(-190)
    /\ pureOut[1].once = Deg(170)
    /\ pureOut[1].twice = Deg(170)

\* ---------------------------------------------------------------- one event and one update on their own
\* complete sensor events on a grid: alpha over the full turn, beta over its
\* range, gamma on both sides of the sensor's discontinuities at 90 and -90
AlphaGrid == {0, 90, 135, 180, 270, 359}
BetaGrid == {-180, -90, -30, 0, 45, 90, 180}
GammaGrid == {-91, -89, -45, 0, 60, 89, 91}
EventGrid ==
    {[alpha |-> Some(Deg(a)), beta |-> Some(Deg(b)), gamma |-> Some(Deg(g))] :
        a \in AlphaGrid, b \in BetaGrid, g \in GammaGrid}

\* the four screen rotations getScreenRotation can return (lines 95-106)
AllScreenRotations == {Deg(0), Deg(90), Deg(180), Deg(-90)}

\* the origin found by the update: unset, or a yaw captured earlier
Origins == {Null, Some(Deg(-180)), Some(Deg(0)), Some(Deg(135))}

UpdateCases ==
    [event : EventGrid, screenOrient : AllScreenRotations, offset : Origins,
     platform : {"ios", "android"}]

\* the event reporting the same tilt from the other side of the gamma
\* discontinuity: 91 for 89, -91 for -89
Twin(event) ==
    LET g == event.gamma[1]
    IN [event EXCEPT !.gamma = Some(IF g >= 0 THEN Deg(180) - g ELSE Deg(-180) - g)]

InitUpdate ==
    /\ InitHook
    /\ pureIn \in {Some(c) : c \in UpdateCases}
    /\ pureOut = Null

\* handleOrientation stores the event and the next due frame publishes; the
\* same for the event's twin
applyUpdate ==
    /\ pureIn # Null
    /\ pureOut = Null
    /\ \E c \in {pureIn[1]} :
       \E raw \in {storeSample(DefaultRaw, c.event)} :
       \E rawTwin \in {storeSample(DefaultRaw, Twin(c.event))} :
          pureOut' = Some([raw |-> raw,
                           est |-> updated(raw, c.screenOrient, c.offset, c.platform),
                           rawTwin |-> rawTwin,
                           estTwin |-> updated(rawTwin, c.screenOrient, c.offset, c.platform)])
    /\ UNCHANGED <<progVars, histVars, pureIn>>

NextUpdate == applyUpdate

SpecUpdate == InitUpdate /\ [][NextUpdate]_vars

Between(lo, v, hi) == lo <= v /\ v <= hi

\* C11: for every raw sample, every screen rotation in {0, 90, 180, -90},
\* either platform and any yaw origin, the update publishes yaw and roll
\* within [-180, 180] and pitch within [-90, 90].
C11_PublishedAnglesInRange ==
    pureOut # Null =>
        /\ Between(Deg(-180), pureOut[1].est.yaw, Deg(180))
        /\ Between(Deg(-180), pureOut[1].est.roll, Deg(180))
        /\ Between(Deg(-90), pureOut[1].est.pitch, Deg(90))

\* an update with a rotated screen and an origin captured earlier that
\* publishes non-zero angles
C11_Witness ==
    /\ pureOut # Null
    /\ pureIn[1].screenOrient = Deg(-90)
    /\ pureIn[1].offset = Some(Deg(135))
    /\ pureIn[1].platform = "android"
    /\ pureIn[1].event = [alpha |-> Some(Deg(180)), beta |-> Some(Deg(-180)), gamma |-> Some(Deg(60))]
    /\ pureOut[1].est.yaw = Deg(135)
    /\ pureOut[1].est.roll = Deg(180)
    /\ pureOut[1].est.pitch = Deg(30)

Epsilon == Deg(2)
Near(a, b) == Abs(a - b) <= Epsilon

\* C13: a gamma above 90 is stored as 180 - gamma and a gamma below -90 as
\* -180 - gamma; events with gamma = 91 and gamma = 89 and the same alpha and
\* beta store the same raw sample, and the yaw, pitch and roll published from
\* them differ by no more than 2 degrees.
C13_GammaUnwrapContinuous ==
    pureOut # Null =>
        LET gamma == pureIn[1].event.gamma[1]
            out == pureOut[1]
        IN /\ gamma > Deg(90) => out.raw.gamma = Deg(180) - gamma
           /\ gamma < Deg(-90) => out.raw.gamma = Deg(-180) - gamma
           /\ gamma \in {Deg(91), Deg(89)} =>
                /\ Twin(pureIn[1].event).gamma[1] \in {Deg(91), Deg(89)} \ {gamma}
                /\ out.raw = out.rawTwin
                /\ Near(out.est.yaw, out.estTwin.yaw)
                /\ Near(out.est.pitch, out.estTwin.pitch)
                /\ Near(out.est.roll, out.estTwin.roll)

\* the event with gamma = 91 stored with gamma = 89, and published with a
\* roll that is not 0
C13_Witness ==
    /\ pureOut # Null
    /\ pureIn[1].event.gamma = Some(Deg(91))
    /\ pureOut[1].raw.gamma = Deg(89)
    /\ pureOut[1].rawTwin.gamma = Deg(89)
    /\ pureOut[1].est.roll # 0

\* ---------------------------------------------------------------- claims on the hook
\* the display convention applied to a relative yaw of 0 (line 171)
ConventionZero == normalize(FSub(correction(platformRef), 0))

\* C1: after resetYaw, the update that runs next publishes yaw =
\* normalize(correction - 0), whatever the raw sample, and every later update
\* that finds the raw sample and the screen rotation as they were at that
\* update publishes the same yaw again.
C1_ResetThenZeroYaw ==
    (/\ lastOp = "update"
     /\ epoch = "reset"
     /\ capture # Null
     /\ capture[1].raw = rawRef
     /\ capture[1].screen = screenOrientRef)
    => yaw = ConventionZero

\* a second update has run after a reset, on the sensor sample the origin was taken from
C1_Witness ==
    /\ lastOp = "update"
    /\ epoch = "reset"
    /\ capture # Null
    /\ capture[1].again
    /\ capture[1].raw = rawRef
    /\ capture[1].screen = screenOrientRef
    /\ rawRef # DefaultRaw
    /\ yaw = ConventionZero

\* C2: a resetYaw step only clears the yaw origin: the published yaw, pitch
\* and roll, the stored raw sample, the permission flag and the listener
\* registration are unchanged by it, and the published angles change in
\* update steps only.
C2_ResetOnlyClearsOrigin ==
    [][/\ lastOp' = "resetYaw" =>
            /\ yawOffsetRef' = Null
            /\ UNCHANGED <<yaw, pitch, roll, rawRef, permissionGranted, listeners>>
       /\ (<<yaw, pitch, roll>>' # <<yaw, pitch, roll>>) => lastOp' = "update"]_vars

\* resetYaw has been called while a non-zero yaw from a sensor sample is published
C2_Witness ==
    /\ lastOp = "resetYaw"
    /\ yawOffsetRef = Null
    /\ yaw # 0
    /\ yaw # ConventionZero
    /\ rawRef # DefaultRaw
    /\ Subscription \in listeners

\* C3: the yaw origin is unset initially; it becomes set only in an update
\* step, and the first update that runs while it is unset sets it; while set,
\* no step changes its value; it becomes unset only in a resetYaw step.
C3_OriginStateMachine ==
    /\ yawOffsetRef = Null
    /\ [][/\ (yawOffsetRef = Null /\ yawOffsetRef' # Null) => lastOp' = "update"
          /\ (yawOffsetRef = Null /\ lastOp' = "update") => yawOffsetRef' # Null
          /\ (yawOffsetRef # Null /\ yawOffsetRef' # Null) => yawOffsetRef' = yawOffsetRef
          /\ (yawOffsetRef # Null /\ yawOffsetRef' = Null) => lastOp' = "resetYaw"]_vars

\* an update has run on a sample other than the one the origin was taken
\* from, and the origin still is the raw yaw of the sample it was taken from
C3_Witness ==
    /\ lastOp = "update"
    /\ capture # Null
    /\ capture[1].again
    /\ capture[1].raw # rawRef
    /\ yawOffsetRef = Some(rawAnglesOf(capture[1].raw, capture[1].screen).yawDeg)
    /\ yawOffsetRef # Some(rawAnglesOf(rawRef, screenOrientRef).yawDeg)

\* C4: as long as handleOrientation has accepted no event, the yaw origin is unset.
C4_OriginOnlyFromSensorSample ==
    lastEvent = Null => yawOffsetRef = Null

\* C5: an event with a missing alpha, beta or gamma changes nothing of the
\* hook's state (stored raw sample, yaw origin, published angles and all the
\* rest), so every later step starts from the state it would have started from
\* without the event.
C5_IncompleteEventDropped ==
    [][lastOp' = "eventDropped" => UNCHANGED <<progVars, lastEvent, batch, capture>>]_vars

\* an incomplete event has been delivered while a sensor sample is stored and the origin is set
C5_Witness ==
    /\ lastOp = "eventDropped"
    /\ rawRef # DefaultRaw
    /\ yawOffsetRef # Null
    /\ batch # "none"

\* C6: in the step after a permission request resolved with something other
\* than "granted", unless that step grants a later request, permissionGranted
\* stays false, no listener is registered and the published angles stay as
\* they were.
C6_DeniedStaysInert ==
    [][(lastOp = "denied" /\ ~permissionGranted /\ ~permissionGranted') =>
            /\ listeners' = {}
            /\ UNCHANGED <<yaw, pitch, roll>>]_vars

\* C7: a registered listener implies permissionGranted; with the permission
\* gate the listener becomes registered only in the step in which a request
\* resolves with "granted"; without the gate requestPermission registers the
\* listener and sets the flag in the call itself, with nothing left pending.
C7_ListenerOnlyAfterGrant ==
    /\ [](Subscription \in listeners => permissionGranted)
    /\ []((~hasPermissionGate /\ lastOp = "requestPermission") =>
             (Subscription \in listeners /\ permissionGranted /\ pending = 0))
    /\ [][(hasPermissionGate /\ Subscription \notin listeners /\ Subscription \in listeners')
             => (lastOp' = "granted" /\ pending' = pending - 1)]_vars

\* with the gate, a request was answered "granted" and the listener is registered
C7_Witness ==
    /\ hasPermissionGate
    /\ lastOp = "granted"
    /\ Subscription \in listeners
    /\ permissionGranted

\* C8: when the platform's permission request rejects or throws, the
\* permission flag and the listener registration are left as they were, and
\* the platform is asked again only by a requestPermission call.
C8_RejectionLeavesStateNoRetry ==
    [][/\ lastOp' = "rejected" =>
            UNCHANGED <<permissionGranted, listeners, requestsIssued>>
       /\ requestsIssued' # requestsIssued => lastOp' = "requestPermission"]_vars

\* the only request issued was rejected: not granted, no listener, nothing pending
C8_Witness ==
    /\ lastOp = "rejected"
    /\ ~permissionGranted
    /\ listeners = {}
    /\ pending = 0
    /\ requestsIssued = 1

\* C9: an update that runs publishes the estimate of the event accepted last
\* (as stored by handleOrientation), whatever was accepted before it.
C9_LastValueWins ==
    (lastOp = "update" /\ lastEvent # Null) =>
        LET u == updated(storeSample(DefaultRaw, lastEvent[1]), screenOrientRef,
                         yawOffsetRef, platformRef)
        IN /\ rawRef = storeSample(DefaultRaw, lastEvent[1])
           /\ yaw = u.yaw
           /\ pitch = u.pitch
           /\ roll = u.roll

\* an update has run after two or more events were accepted since the update before it
C9_Witness ==
    /\ lastOp = "update"
    /\ consumed = "several"
    /\ lastEvent # Null
    /\ rawRef = storeSample(DefaultRaw, lastEvent[1])

\* an update published from the sample alpha = 0, beta = 0, gamma = 0 with
\* the screen unrotated
FlatUpdate == lastOp = "update" /\ rawRef = DefaultRaw /\ screenOrientRef = Deg(0)

\* the next update, from the same input, publishes the same yaw
FlatYawRepeats == [][(FlatUpdate /\ lastOp' = "update") => yaw' = yaw]_vars

\* C12 as stated: for the raw sample alpha = 0, beta = 0, gamma = 0 with
\* screen rotation 0 the update publishes pitch about 0 and roll about 0, and
\* repeated updates with this input publish the same yaw.
C12_FlatSampleLevel ==
    /\ [](FlatUpdate => (Near(pitch, Deg(0)) /\ Near(roll, Deg(0))))
    /\ FlatYawRepeats

\* C12 amended: for the raw sample alpha = 0, beta = 0, gamma = 0 with screen
\* rotation 0 the update publishes pitch about -90 (the device lies flat, its
\* back looking straight down) and roll about 0, and repeated updates with
\* this input publish the same yaw.
C12_FlatSampleLooksDown ==
    /\ [](FlatUpdate => (Near(pitch, Deg(-90)) /\ Near(roll, Deg(0))))
    /\ FlatYawRepeats

\* a second update from the flat sample has run with the origin the first captured
C12_Witness ==
    /\ FlatUpdate
    /\ capture # Null
    /\ capture[1].again
    /\ capture[1].raw = DefaultRaw
    /\ pitch = Deg(-90)
    /\ roll = 0

\* C14: once the cleanup has run (unmount), no deviceorientation listener of
\* the hook is registered in any later state, also when a requestPermission
\* call was still waiting for the platform's answer at unmount.
C14_NoListenerAfterCleanup == ~mounted => listeners = {}

\* C15: however many times requestPermission is invoked and granted, one
\* after the other or with overlapping pending grants, at most one
\* deviceorientation listener is registered; so each accepted sensor event
\* is stored exactly once, and the cleanup leaves no listener registered.
C15_SingleSubscription ==
    /\ [](Cardinality(listeners) <= 1)
    /\ [][(lastOp' = "event" /\ batch = "none") =>
             (batch' = "one" /\ rawRef' = storeSample(rawRef, lastEvent'[1]))]_vars
    /\ [](lastOp = "cleanup" => listeners = {})

\* a second grant arrives while the listener of the first is registered and
\* has already received an event
C15_Witness ==
    /\ hasPermissionGate
    /\ mounted
    /\ requestsIssued = MaxRequests
    /\ lastOp = "granted"
    /\ lastEvent # Null
    /\ listeners = {Subscription}

====
